---- MODULE Spec2Model ----
(***************************************************************************)
(* Masternode governance layer of spreadcoin (src/src/masternodes.cpp):    *)
(* existence-proof intake, scoring, vote casting, ballot tally with undo,  *)
(* and payee rotation, as one state machine.                               *)
(*                                                                         *)
(* Conventions.  C++ arrays indexed 0..1 (vvotes[j], velected[j]) are      *)
(* tuples indexed j+1: index 1 is the remove direction (elect = false),    *)
(* index 2 the add direction (elect = true).  Outpoints are positive       *)
(* integers ordered as std::set<COutPoint> orders them; 0 is the null      *)
(* outpoint.  A hash is modelled by the tuple of what it covers.           *)
(***************************************************************************)
EXTENDS Integers, Sequences, FiniteSets, TLC

VARIABLES
    nBestHeight,            \* height of the active tip
    vBlocks,                \* block index of the active chain: height -> CBlockIndex (sparse)
    vStale,                 \* disconnected block-index entries, most recent first
    g_MasterNodes,          \* outpoint -> CMasterNode
    g_OurMasterNodes,       \* outpoints operated locally
    g_ElectedMasternodes,   \* the elected roster
    g_InitialBlock,         \* height at which monitoring began
    setValid,               \* outpoints whose collateral validates right now (chain state)
    nNow,                   \* steady clock, in ms
    fIBD,                   \* IsInitialBlockDownload()
    vNodes,                 \* peer -> [setKnown, pushed]
    fAborted,               \* an assert failed: the process is gone
    fMoveEmpties,           \* the build: a moved-from CSignature is left empty
    last                    \* the last call: its name, arguments, result and pre-state

vars ==
    << nBestHeight, vBlocks, vStale, g_MasterNodes, g_OurMasterNodes,
       g_ElectedMasternodes, g_InitialBlock, setValid, nNow, fIBD, vNodes,
       fAborted, fMoveEmpties, last >>

----------------------------------------------------------------------------
(* Program constants *)

g_MasternodesStartPayments == 150
g_MasternodesStopPayments == 100
g_AnnounceExistenceRestartPeriod == 20
g_AnnounceExistencePeriod == 5
g_MonitoringPeriod == 100
g_MonitoringPeriodMin == 30
g_PenaltyTime == 500

(* Constants of headers outside this file, and the sizes of the universe.  *)
g_MasternodesElectionPeriod == 3    \* window of the tally, in blocks
g_MaxMasternodeVotes == 3           \* vote budget of one ballot
nThirdHardforkBlock == 1            \* getThirdHardforkBlock()
MaxOutpoint == 1                    \* outpoints 1..MaxOutpoint occur in ballots
MaxBallot == 2                      \* entries of one block's ballot, both lists together
MaxChain == 3                       \* blocks connected above genesis in the tally runs
MaxStale == 1                       \* disconnected blocks kept for a re-connect
MaxVoteOutpoint == 5                \* outpoints 1..MaxVoteOutpoint in the vote-casting runs
MaxPriorVotes == 1                  \* entries a caller's vote array may hold on entry
IntakeStart == 250                  \* tip height at which the intake runs begin
JumpLen == 151                      \* blocks one sync, or one reorganisation, of the intake runs
MaxAdvance == 1                     \* the lifecycle runs end this far above IntakeStart
MaxMsgs == 5                        \* proofs a list grows to from empty in the intake runs
MaxNonce == 2                       \* distinct signatures of one (outpoint, height, hash)
MaxPeers == 1                       \* connected peers
ScoreStart == 99                    \* height at which the scoring runs start
MaxScoreAdvance == 2                \* the scoring runs end this far above ScoreStart
LateHi == 5000000                   \* the long delay of the scoring runs, in units of TimeBase ms
MaxTicks == 1                       \* short clock steps (of one second) in the scoring runs
MaxPayee == 151                     \* outpoints of the payee runs
PayeeStart == 2                     \* height at which the payee runs start
MaxPayeeAdvance == 2                \* the payee runs end this far above PayeeStart

NullOutpoint == 0
Outpoints == 1..MaxOutpoint

----------------------------------------------------------------------------
(* Small helpers *)

Min(S) == CHOOSE x \in S : \A y \in S : x <= y

RECURSIVE SortedSeq(_)
SortedSeq(S) ==
    IF S = {} THEN << >>
    ELSE LET m == Min(S) IN << m >> \o SortedSeq(S \ {m})

Range(s) == { s[i] : i \in 1..Len(s) }

Occurrences(s, x) == Cardinality({ i \in 1..Len(s) : s[i] = x })

Prefix(s, n) == SubSeq(s, 1, n)

\* Sequences over S of length at most n
SeqsUpTo(S, n) == UNION { [1..k -> S] : k \in 0..n }

----------------------------------------------------------------------------
(* Records *)

\* The key identity the locking script of collateral `outpoint` resolves to;
\* NoKey is CKey(), and what a signature over something else recovers to.
NoKey == 0
KeyOf(outpoint) == outpoint

NewMasterNode(outpoint) ==
    [ outpoint      |-> outpoint,
      keyid         |-> KeyOf(outpoint),
      my            |-> FALSE,
      privkey       |-> NoKey,
      misbehaving   |-> FALSE,
      existenceMsgs |-> << >> ]

EmptyBlock ==
    [ vvotes       |-> << << >>, << >> >>,
      velected     |-> << << >>, << >> >>,
      mn           |-> NullOutpoint,
      hashBlock    |-> 0,
      nReceiveTime |-> << 0, 0 >> ]

NewBlock(votes, hash) == [ EmptyBlock EXCEPT !.vvotes = votes, !.hashBlock = hash ]

BlockAt(blocks, h) == IF h \in DOMAIN blocks THEN blocks[h] ELSE EmptyBlock

SetBlock(blocks, h, b) ==
    [ x \in (DOMAIN blocks \cup {h}) \ (IF b = EmptyBlock THEN {h} ELSE {}) |->
        IF x = h THEN b ELSE blocks[x] ]

DropBlock(blocks, h) == [ x \in DOMAIN blocks \ {h} |-> blocks[x] ]

----------------------------------------------------------------------------
(* Registry *)

getKeyIDAndAmount(valid, outpoint) == outpoint \in valid

getMasterNode(mns, valid, outpoint) ==
    IF outpoint \in DOMAIN mns
    THEN [ found |-> TRUE, mns |-> mns ]
    ELSE IF ~getKeyIDAndAmount(valid, outpoint)
    THEN [ found |-> FALSE, mns |-> mns ]
    ELSE [ found |-> TRUE,
           mns   |-> [ x \in DOMAIN mns \cup {outpoint} |->
                         IF x = outpoint THEN NewMasterNode(outpoint) ELSE mns[x] ] ]

MN_Elect(mns, elected, valid, outpoint, elect) ==
    IF elect
    THEN LET g == getMasterNode(mns, valid, outpoint) IN
         IF ~g.found
         THEN [ ret |-> FALSE, mns |-> g.mns, elected |-> elected ]
         ELSE [ ret |-> outpoint \notin elected, mns |-> g.mns,
                elected |-> elected \cup {outpoint} ]
    ELSE [ ret |-> outpoint \in elected, mns |-> mns,
           elected |-> elected \ {outpoint} ]

----------------------------------------------------------------------------
(* PayeeRotator *)

\* lower_bound in the place of upper_bound
UpperBound_Inclusive(elected, outpoint) == { x \in elected : x >= outpoint }

\* The part of the roster from std::set::upper_bound(outpoint) to its end
UpperBound(elected, outpoint) == { x \in elected : x > outpoint }

\* The rotation without the rewind at the end of the roster
MN_NextPayee_NoRewind(mns, elected, valid, PrevPayee) ==
    IF PrevPayee = NullOutpoint
    THEN IF Cardinality(elected) < g_MasternodesStartPayments
         THEN [ found |-> FALSE, outpoint |-> NullOutpoint, mns |-> mns ]
         ELSE LET g == getMasterNode(mns, valid, Min(elected)) IN
              [ found |-> g.found,
                outpoint |-> IF g.found THEN Min(elected) ELSE NullOutpoint,
                mns |-> g.mns ]
    ELSE IF Cardinality(elected) < g_MasternodesStopPayments
              \/ UpperBound(elected, PrevPayee) = {}
         THEN [ found |-> FALSE, outpoint |-> NullOutpoint, mns |-> mns ]
         ELSE LET iter == Min(UpperBound(elected, PrevPayee))
                  g == getMasterNode(mns, valid, iter) IN
              [ found |-> g.found,
                outpoint |-> IF g.found THEN iter ELSE NullOutpoint,
                mns |-> g.mns ]

MN_NextPayee(mns, elected, valid, PrevPayee) ==
    IF PrevPayee = NullOutpoint
    THEN IF Cardinality(elected) < g_MasternodesStartPayments
         THEN [ found |-> FALSE, outpoint |-> NullOutpoint, mns |-> mns ]
         ELSE LET g == getMasterNode(mns, valid, Min(elected)) IN
              [ found |-> g.found,
                outpoint |-> IF g.found THEN Min(elected) ELSE NullOutpoint,
                mns |-> g.mns ]
    ELSE IF Cardinality(elected) < g_MasternodesStopPayments
         THEN [ found |-> FALSE, outpoint |-> NullOutpoint, mns |-> mns ]
         ELSE LET iter == IF UpperBound(elected, PrevPayee) = {}
                          THEN Min(elected)
                          ELSE Min(UpperBound(elected, PrevPayee))
                  g == getMasterNode(mns, valid, iter) IN
              [ found |-> g.found,
                outpoint |-> IF g.found THEN iter ELSE NullOutpoint,
                mns |-> g.mns ]

----------------------------------------------------------------------------
(* BallotTally *)

\* The blocks MN_OnConnectBlock walks from pindex->pprev: at most
\* g_MasternodesElectionPeriod of them, stopping at genesis (pprev = NULL).
WindowHeights(h) ==
    { x \in (h - g_MasternodesElectionPeriod)..(h - 1) : x >= 0 }

RECURSIVE SumOver(_, _, _, _)
SumOver(blocks, H, j, outpoint) ==
    IF H = {} THEN 0
    ELSE LET x == Min(H) IN
         Occurrences(BlockAt(blocks, x).vvotes[j + 1], outpoint)
           + SumOver(blocks, H \ {x}, j, outpoint)

\* vvotes[j][outpoint] after the counting loop (0 when the key is absent)
VoteCount(blocks, h, j, outpoint) == SumOver(blocks, WindowHeights(h), j, outpoint)

VotedOutpoints(blocks, h, j) ==
    UNION { Range(BlockAt(blocks, x).vvotes[j + 1]) : x \in WindowHeights(h) }

IsBinding(blocks, h, j, outpoint) ==
    VoteCount(blocks, h, j, outpoint) > g_MasternodesElectionPeriod \div 2

\* The second loop of MN_OnConnectBlock for one direction j, over the keys of
\* the tally map (taken in ascending order; the flips of distinct outpoints
\* commute).  acc = [mns, elected, flips].
\* Variant of the loop that records every binding decision, whether or not
\* MN_Elect changed the roster.
RECURSIVE ApplyVotes_RecordAll(_, _, _, _, _, _)
ApplyVotes_RecordAll(keys, blocks, h, j, valid, acc) ==
    IF keys = << >> THEN acc
    ELSE LET outpoint == Head(keys)
             e == MN_Elect(acc.mns, acc.elected, valid, outpoint, j = 1)
         IN  IF IsBinding(blocks, h, j, outpoint)
             THEN ApplyVotes_RecordAll(Tail(keys), blocks, h, j, valid,
                    [ mns |-> e.mns, elected |-> e.elected,
                      flips |-> Append(acc.flips, outpoint) ])
             ELSE ApplyVotes_RecordAll(Tail(keys), blocks, h, j, valid, acc)

RECURSIVE ApplyVotes(_, _, _, _, _, _)
ApplyVotes(keys, blocks, h, j, valid, acc) ==
    IF keys = << >> THEN acc
    ELSE LET outpoint == Head(keys)
             e == MN_Elect(acc.mns, acc.elected, valid, outpoint, j = 1)
         IN  IF IsBinding(blocks, h, j, outpoint)
             THEN ApplyVotes(Tail(keys), blocks, h, j, valid,
                    [ mns |-> e.mns, elected |-> e.elected,
                      flips |-> IF e.ret THEN Append(acc.flips, outpoint)
                                ELSE acc.flips ])
             ELSE ApplyVotes(Tail(keys), blocks, h, j, valid, acc)

\* MN_OnConnectBlock(pindex) for the block at height h of st.blocks;
\* st = [mns, elected, blocks].
MN_OnConnectBlock(st, h, valid) ==
    IF h <= nThirdHardforkBlock THEN st
    ELSE LET pindex == BlockAt(st.blocks, h)
             a0 == ApplyVotes(SortedSeq(VotedOutpoints(st.blocks, h, 0)),
                              st.blocks, h, 0, valid,
                              [ mns |-> st.mns, elected |-> st.elected,
                                flips |-> pindex.velected[1] ])
             a1 == ApplyVotes(SortedSeq(VotedOutpoints(st.blocks, h, 1)),
                              st.blocks, h, 1, valid,
                              [ mns |-> a0.mns, elected |-> a0.elected,
                                flips |-> pindex.velected[2] ])
             p  == MN_NextPayee(a1.mns, a1.elected, valid,
                                BlockAt(st.blocks, h - 1).mn)
             b  == [ pindex EXCEPT !.velected = << a0.flips, a1.flips >>,
                                   !.mn = IF p.found THEN p.outpoint ELSE @ ]
         IN  [ mns |-> p.mns, elected |-> a1.elected,
               blocks |-> SetBlock(st.blocks, h, b) ]

\* The loop of MN_OnDisconnectBlock over pindex->velected[j], each inverse flip
\* asserted.  acc = [mns, elected, ok]; a failed assert stops the process.
RECURSIVE UndoFlips(_, _, _, _)
UndoFlips(flips, j, valid, acc) ==
    IF flips = << >> \/ ~acc.ok THEN acc
    ELSE LET e == MN_Elect(acc.mns, acc.elected, valid, Head(flips), j # 1) IN
         UndoFlips(Tail(flips), j, valid,
                   [ mns |-> e.mns, elected |-> e.elected, ok |-> e.ret ])

MN_OnDisconnectBlock(st, h, valid) ==
    LET pindex == BlockAt(st.blocks, h)
        u0 == UndoFlips(pindex.velected[1], 0, valid,
                        [ mns |-> st.mns, elected |-> st.elected, ok |-> TRUE ])
        u1 == UndoFlips(pindex.velected[2], 1, valid, u0)
    IN  [ mns |-> u1.mns, elected |-> u1.elected, ok |-> u1.ok ]

----------------------------------------------------------------------------
(* Chain-sync hooks, as the block-processing code drives them *)

NoCall == [ op |-> "none", arg |-> 0, ret |-> 0, pre |-> 0 ]

\* One block's ballot: the remove list and the add list its proposer embedded.
Ballots ==
    { v \in SeqsUpTo(Outpoints, MaxBallot) \X SeqsUpTo(Outpoints, MaxBallot) :
        Len(v[1]) + Len(v[2]) <= MaxBallot }

\* What ConnectBlock and DisconnectBlock leave alone.
UnchangedByChain ==
    UNCHANGED << g_OurMasterNodes, g_InitialBlock, setValid, nNow, fIBD, vNodes,
                 fMoveEmpties >>

\* A new block is accepted on top of the tip and connected.
ConnectBlock(votes, hash) ==
    LET h  == nBestHeight + 1
        st == MN_OnConnectBlock(
                [ mns |-> g_MasterNodes, elected |-> g_ElectedMasternodes,
                  blocks |-> SetBlock(vBlocks, h, NewBlock(votes, hash)) ],
                h, setValid)
    IN  /\ ~fAborted
        /\ nBestHeight' = h
        /\ vBlocks' = st.blocks
        /\ vStale' = << >>
        /\ g_MasterNodes' = st.mns
        /\ g_ElectedMasternodes' = st.elected
        /\ fAborted' = FALSE
        /\ last' = [ op |-> "connect", arg |-> h, ret |-> BlockAt(st.blocks, h).mn,
                     pre |-> [ elected |-> g_ElectedMasternodes,
                               velected |-> << << >>, << >> >> ] ]
        /\ UnchangedByChain

\* The block disconnected last is connected again (a reorg away and back):
\* its block-index entry is the one that was disconnected.
ReconnectBlock ==
    LET h  == nBestHeight + 1
        st == MN_OnConnectBlock(
                [ mns |-> g_MasterNodes, elected |-> g_ElectedMasternodes,
                  blocks |-> SetBlock(vBlocks, h, Head(vStale)) ],
                h, setValid)
    IN  /\ ~fAborted
        /\ vStale # << >>
        /\ nBestHeight' = h
        /\ vBlocks' = st.blocks
        /\ vStale' = Tail(vStale)
        /\ g_MasterNodes' = st.mns
        /\ g_ElectedMasternodes' = st.elected
        /\ fAborted' = FALSE
        /\ last' = [ op |-> "reconnect", arg |-> h, ret |-> BlockAt(st.blocks, h).mn,
                     pre |-> [ elected |-> g_ElectedMasternodes,
                               velected |-> Head(vStale).velected ] ]
        /\ UnchangedByChain

\* The tip is disconnected; its block-index entry stays in memory.
DisconnectBlock ==
    LET h == nBestHeight
        u == MN_OnDisconnectBlock(
               [ mns |-> g_MasterNodes, elected |-> g_ElectedMasternodes,
                 blocks |-> vBlocks ], h, setValid)
    IN  /\ ~fAborted
        /\ h > 0
        /\ Len(vStale) < MaxStale
        /\ nBestHeight' = h - 1
        /\ vBlocks' = DropBlock(vBlocks, h)
        /\ vStale' = << BlockAt(vBlocks, h) >> \o vStale
        /\ g_MasterNodes' = u.mns
        /\ g_ElectedMasternodes' = u.elected
        /\ fAborted' = ~u.ok
        /\ last' = [ op |-> "disconnect", arg |-> h, ret |-> u.ok,
                     pre |-> [ elected |-> g_ElectedMasternodes,
                               after |-> last.op, afterArg |-> last.arg,
                               before |-> IF last.op \in {"connect", "reconnect"}
                                          THEN last.pre.elected ELSE {} ] ]
        /\ UnchangedByChain

\* The chain state moves under the registry: a collateral is spent, or reaches
\* its confirmations.
ChangeCollateral(outpoint) ==
    /\ ~fAborted
    /\ setValid' = IF outpoint \in setValid THEN setValid \ {outpoint}
                   ELSE setValid \cup {outpoint}
    /\ UNCHANGED << nBestHeight, vBlocks, vStale, g_MasterNodes, g_OurMasterNodes,
                    g_ElectedMasternodes, g_InitialBlock, nNow, fIBD, vNodes,
                    fAborted, fMoveEmpties, last >>

\* MN_LoadElections replays MN_OnConnectBlock over the blocks above the fork,
\* from height `h` on.
RECURSIVE ReplayFrom(_, _, _, _)
ReplayFrom(st, h, top, valid) ==
    IF h > top THEN st
    ELSE ReplayFrom(MN_OnConnectBlock(st, h, valid), h + 1, top, valid)

\* The block index as a starting process holds it: the ballots are ledger
\* content, the flip records and payees are rebuilt by the replay.
LoadedBlocks(blocks) ==
    LET b == [ x \in DOMAIN blocks |->
                 [ EmptyBlock EXCEPT !.vvotes = blocks[x].vvotes,
                                     !.hashBlock = blocks[x].hashBlock ] ]
    IN  [ x \in { y \in DOMAIN b : b[y] # EmptyBlock } |-> b[x] ]

\* The process restarts: the globals are constructed empty and
\* MN_LoadElections runs over the stored chain.
MN_LoadElections ==
    LET st == ReplayFrom(
                [ mns |-> << >>, elected |-> {}, blocks |-> LoadedBlocks(vBlocks) ],
                nThirdHardforkBlock + 1, nBestHeight, setValid)
    IN  /\ ~fAborted
        /\ last.op # "load"
        /\ vBlocks' = st.blocks
        /\ vStale' = << >>
        /\ g_MasterNodes' = st.mns
        /\ g_ElectedMasternodes' = st.elected
        /\ g_OurMasterNodes' = {}
        /\ g_InitialBlock' = 0
        /\ last' = [ op |-> "load", arg |-> nBestHeight, ret |-> 0,
                     pre |-> [ elected |-> g_ElectedMasternodes,
                               blocks |-> vBlocks ] ]
        /\ UNCHANGED << nBestHeight, setValid, nNow, fIBD, vNodes, fAborted,
                        fMoveEmpties >>

----------------------------------------------------------------------------
(* The tally machine: blocks carrying ballots are connected, disconnected   *)
(* and connected again over a small universe of outpoints, while            *)
(* collaterals come and go and the process may restart.                     *)

InitTally ==
    /\ nBestHeight = 0
    /\ vBlocks = << >>
    /\ vStale = << >>
    /\ g_MasterNodes = << >>
    /\ g_OurMasterNodes = {}
    /\ g_ElectedMasternodes = {}
    /\ g_InitialBlock = 0
    /\ setValid \in SUBSET Outpoints
    /\ nNow = << 0, 1 >>
    /\ fIBD = FALSE
    /\ vNodes = << >>
    /\ fAborted = FALSE
    /\ fMoveEmpties = FALSE
    /\ last = NoCall

NextTally ==
    \/ \E votes \in Ballots : nBestHeight < MaxChain /\ ConnectBlock(votes, 0)
    \/ ReconnectBlock
    \/ DisconnectBlock
    \/ \E outpoint \in Outpoints : ChangeCollateral(outpoint)

SpecTally == InitTally /\ [][NextTally]_vars

\* The replay machine: blocks are connected, collaterals come and go, and the
\* process restarts and rebuilds its roster with MN_LoadElections.
NextReplay ==
    \/ \E votes \in Ballots : nBestHeight < MaxChain /\ ConnectBlock(votes, 0)
    \/ \E outpoint \in Outpoints : ChangeCollateral(outpoint)
    \/ MN_LoadElections

SpecReplay == InitTally /\ [][NextReplay]_vars

----------------------------------------------------------------------------
(* MessageIntake *)

\* A compact signature: the key that made it, the hash it was made over and
\* the nonce that tells two signatures of one hash apart.  A moved-from
\* signature holds nothing.
EmptySignature == [ key |-> NoKey, over |-> << >>, nonce |-> 0 ]

Sign(key, hash, nonce) == [ key |-> key, over |-> hash, nonce |-> nonce ]

RecoverCompact(hash, signature) ==
    IF signature.over = hash THEN signature.key ELSE NoKey

GetHashForSignature(mnem) == << mnem.outpoint, mnem.nBlock, mnem.hashBlock >>

GetHash(mnem) == << mnem.outpoint, mnem.nBlock, mnem.hashBlock, mnem.signature >>

\* The proof cap of AddExistenceMsg
ProofCap == (g_MonitoringPeriod \div g_AnnounceExistencePeriod) * 10

\* The predicate Cleanup hands to std::remove_if
IsOld(received, height) == received.msg.nBlock < height - 2 * g_MonitoringPeriod

\* What std::move leaves behind in a CReceivedExistenceMsg: the scalar members
\* keep their values; the signature keeps its bytes or is left empty,
\* depending on its type.
MovedFrom(received, empties) ==
    IF empties THEN [ received EXCEPT !.msg.signature = EmptySignature ]
    ELSE received

\* One iteration of the loop of std::remove_if at read position i;
\* s = [v, first], `first` the write position.
RemoveIfStep(s, i, height, empties) ==
    IF ~IsOld(s.v[i], height)
    THEN [ v     |-> [ s.v EXCEPT ![s.first] = s.v[i],
                                  ![i] = MovedFrom(s.v[i], empties) ],
           first |-> s.first + 1 ]
    ELSE s

\* The iterations at the read positions lo..hi, in order; the range is split
\* in halves to keep the evaluation shallow.
RECURSIVE RemoveIfLoop(_, _, _, _, _)
RemoveIfLoop(s, lo, hi, height, empties) ==
    IF lo > hi THEN s
    ELSE IF lo = hi THEN RemoveIfStep(s, lo, height, empties)
    ELSE LET mid == (lo + hi) \div 2
             s1  == RemoveIfLoop(s, lo, mid, height, empties)
         IN  IF s1.first > 0
             THEN RemoveIfLoop(s1, mid + 1, hi, height, empties)
             ELSE s1

\* CMasterNode::Cleanup: std::remove_if, its result dropped: the vector keeps
\* its size.
Cleanup(v, height, empties) ==
    LET olds == { i \in 1..Len(v) : IsOld(v[i], height) } IN
    IF olds = {} THEN v
    ELSE RemoveIfLoop([ v |-> v, first |-> Min(olds) ], Min(olds) + 1, Len(v),
                      height, empties).v

HoldsHash(v, hash) == \E i \in 1..Len(v) : GetHash(v[i].msg) = hash

\* CMasterNode::AddExistenceMsg: [ret, mn]
AddExistenceMsg(mn, newMsg, height, now, empties) ==
    IF HoldsHash(mn.existenceMsgs, GetHash(newMsg))
    THEN [ ret |-> 0, mn |-> mn ]
    ELSE LET cleaned == Cleanup(mn.existenceMsgs, height, empties) IN
         IF Len(cleaned) > ProofCap
         THEN [ ret |-> 20,
                mn  |-> [ mn EXCEPT !.existenceMsgs = cleaned, !.misbehaving = TRUE ] ]
         ELSE [ ret |-> -1,
                mn  |-> [ mn EXCEPT !.existenceMsgs =
                            Append(cleaned, [ msg |-> newMsg, nReceiveTime |-> now ]) ] ]

\* The rules with the age thresholds merged: no band of ignored proofs
MN_ProcessExistenceMsg_Impl_NoIgnoreBand(mns, valid, mnem, height, now, empties) ==
    IF mnem.nBlock < height - 50 THEN [ ret |-> 20, mns |-> mns ]
    ELSE LET g == getMasterNode(mns, valid, mnem.outpoint) IN
         IF ~g.found THEN [ ret |-> 20, mns |-> g.mns ]
         ELSE IF RecoverCompact(GetHashForSignature(mnem), mnem.signature)
                   # g.mns[mnem.outpoint].keyid
         THEN [ ret |-> 100, mns |-> g.mns ]
         ELSE LET a == AddExistenceMsg(g.mns[mnem.outpoint], mnem, height, now,
                                       empties)
              IN  [ ret |-> a.ret,
                    mns |-> [ g.mns EXCEPT ![mnem.outpoint] = a.mn ] ]

\* MN_ProcessExistenceMsg_Impl: [ret, mns]
MN_ProcessExistenceMsg_Impl(mns, valid, mnem, height, now, empties) ==
    IF mnem.nBlock < height - 100 THEN [ ret |-> 20, mns |-> mns ]
    ELSE IF mnem.nBlock < height - 50 THEN [ ret |-> 0, mns |-> mns ]
    ELSE LET g == getMasterNode(mns, valid, mnem.outpoint) IN
         IF ~g.found THEN [ ret |-> 20, mns |-> g.mns ]
         ELSE IF RecoverCompact(GetHashForSignature(mnem), mnem.signature)
                   # g.mns[mnem.outpoint].keyid
         THEN [ ret |-> 100, mns |-> g.mns ]
         ELSE LET a == AddExistenceMsg(g.mns[mnem.outpoint], mnem, height, now,
                                       empties)
              IN  [ ret |-> a.ret,
                    mns |-> [ g.mns EXCEPT ![mnem.outpoint] = a.mn ] ]

\* A relay loop that pushes without consulting setKnown
Relay_IgnoreKnown(nodes, pfrom, hash) ==
    [ p \in DOMAIN nodes |->
        [ setKnown |-> nodes[p].setKnown \cup {hash},
          vSend    |-> IF p # pfrom
                       THEN Append(nodes[p].vSend, hash)
                       ELSE nodes[p].vSend ] ]

\* The relay loop of MN_ProcessExistenceMsg: the hash enters the sender's
\* setKnown, then every peer that did not know it gets the message pushed.
Relay(nodes, pfrom, hash) ==
    [ p \in DOMAIN nodes |->
        [ setKnown |-> nodes[p].setKnown \cup {hash},
          vSend    |-> IF p # pfrom /\ hash \notin nodes[p].setKnown
                       THEN Append(nodes[p].vSend, hash)
                       ELSE nodes[p].vSend ] ]

NoPeer == 0

ProofLen(mns, outpoint) ==
    IF outpoint \in DOMAIN mns THEN Len(mns[outpoint].existenceMsgs) ELSE 0

\* MN_ProcessExistenceMsg(pfrom, mnem): pfrom is a peer, or NoPeer for a proof
\* of our own.
MN_ProcessExistenceMsg(pfrom, mnem) ==
    LET r == MN_ProcessExistenceMsg_Impl(g_MasterNodes, setValid, mnem,
                                         nBestHeight, nNow, fMoveEmpties)
        pre == [ ibd    |-> fIBD,
                 height |-> nBestHeight,
                 known  |-> mnem.outpoint \in DOMAIN g_MasterNodes,
                 valid  |-> mnem.outpoint \in setValid,
                 len    |-> ProofLen(g_MasterNodes, mnem.outpoint),
                 flag   |-> /\ mnem.outpoint \in DOMAIN g_MasterNodes
                            /\ g_MasterNodes[mnem.outpoint].misbehaving,
                 seen   |-> /\ pfrom # NoPeer
                            /\ GetHash(mnem) \in vNodes[pfrom].setKnown,
                 dup    |-> /\ mnem.outpoint \in DOMAIN g_MasterNodes
                            /\ HoldsHash(g_MasterNodes[mnem.outpoint].existenceMsgs,
                                         GetHash(mnem)) ]
    IN  /\ ~fAborted
        /\ IF fIBD
           THEN /\ last' = [ op |-> "ingest", arg |-> [ pfrom |-> pfrom, mnem |-> mnem ],
                             ret |-> [ misbehave |-> 0, penalty |-> 0,
                                       relayed |-> FALSE ],
                             pre |-> pre ]
                /\ UNCHANGED << g_MasterNodes, vNodes >>
           ELSE /\ g_MasterNodes' = r.mns
                /\ vNodes' = IF r.ret >= 0 THEN vNodes
                             ELSE Relay(vNodes, pfrom, GetHash(mnem))
                /\ last' = [ op |-> "ingest", arg |-> [ pfrom |-> pfrom, mnem |-> mnem ],
                             ret |-> [ misbehave |-> r.ret,
                                       penalty |-> IF r.ret > 0 /\ pfrom # NoPeer
                                                   THEN r.ret ELSE 0,
                                       relayed |-> r.ret < 0 ],
                             pre |-> pre ]
        /\ UNCHANGED << nBestHeight, vBlocks, vStale, g_OurMasterNodes,
                        g_ElectedMasternodes, g_InitialBlock, setValid, nNow, fIBD,
                        fAborted, fMoveEmpties >>

\* The initial block download ends.
FinishIBD ==
    /\ ~fAborted
    /\ fIBD
    /\ fIBD' = FALSE
    /\ UNCHANGED << nBestHeight, vBlocks, vStale, g_MasterNodes, g_OurMasterNodes,
                    g_ElectedMasternodes, g_InitialBlock, setValid, nNow, vNodes,
                    fAborted, fMoveEmpties, last >>

----------------------------------------------------------------------------
(* Local enrollment and election requests *)

MN_Start(outpoint, key) ==
    LET g == getMasterNode(g_MasterNodes, setValid, outpoint) IN
    /\ ~fAborted
    /\ g_MasterNodes' = IF g.found
                        THEN [ g.mns EXCEPT ![outpoint].my = TRUE,
                                            ![outpoint].privkey = key ]
                        ELSE g.mns
    /\ g_OurMasterNodes' = IF g.found THEN g_OurMasterNodes \cup {outpoint}
                           ELSE g_OurMasterNodes
    /\ last' = [ op |-> "start", arg |-> outpoint, ret |-> g.found, pre |-> 0 ]
    /\ UNCHANGED << nBestHeight, vBlocks, vStale, g_ElectedMasternodes,
                    g_InitialBlock, setValid, nNow, fIBD, vNodes, fAborted,
                    fMoveEmpties >>

\* A stop that puts a fresh record in the place of the node's
MN_Stop_FreshRecord(outpoint) ==
    LET g == getMasterNode(g_MasterNodes, setValid, outpoint) IN
    /\ ~fAborted
    /\ g_MasterNodes' = IF g.found
                        THEN [ g.mns EXCEPT ![outpoint] = NewMasterNode(outpoint) ]
                        ELSE g.mns
    /\ g_OurMasterNodes' = IF g.found THEN g_OurMasterNodes \ {outpoint}
                           ELSE g_OurMasterNodes
    /\ last' = [ op |-> "stop", arg |-> outpoint, ret |-> g.found, pre |-> 0 ]
    /\ UNCHANGED << nBestHeight, vBlocks, vStale, g_ElectedMasternodes,
                    g_InitialBlock, setValid, nNow, fIBD, vNodes, fAborted,
                    fMoveEmpties >>

MN_Stop(outpoint) ==
    LET g == getMasterNode(g_MasterNodes, setValid, outpoint) IN
    /\ ~fAborted
    /\ g_MasterNodes' = IF g.found
                        THEN [ g.mns EXCEPT ![outpoint].privkey = NoKey ]
                        ELSE g.mns
    /\ g_OurMasterNodes' = IF g.found THEN g_OurMasterNodes \ {outpoint}
                           ELSE g_OurMasterNodes
    /\ last' = [ op |-> "stop", arg |-> outpoint, ret |-> g.found, pre |-> 0 ]
    /\ UNCHANGED << nBestHeight, vBlocks, vStale, g_ElectedMasternodes,
                    g_InitialBlock, setValid, nNow, fIBD, vNodes, fAborted,
                    fMoveEmpties >>

MN_SetMy(outpoint, my) ==
    LET g == getMasterNode(g_MasterNodes, setValid, outpoint) IN
    /\ ~fAborted
    /\ g_MasterNodes' = IF g.found THEN [ g.mns EXCEPT ![outpoint].my = my ]
                        ELSE g.mns
    /\ last' = [ op |-> "setmy", arg |-> outpoint, ret |-> g.found, pre |-> 0 ]
    /\ UNCHANGED << nBestHeight, vBlocks, vStale, g_OurMasterNodes,
                    g_ElectedMasternodes, g_InitialBlock, setValid, nNow, fIBD,
                    vNodes, fAborted, fMoveEmpties >>

\* request_election: MN_Elect called from outside the tally
ElectRequest(outpoint, elect) ==
    LET e == MN_Elect(g_MasterNodes, g_ElectedMasternodes, setValid, outpoint, elect)
    IN  /\ ~fAborted
        /\ g_MasterNodes' = e.mns
        /\ g_ElectedMasternodes' = e.elected
        /\ last' = [ op |-> "elect", arg |-> outpoint, ret |-> e.ret, pre |-> 0 ]
        /\ UNCHANGED << nBestHeight, vBlocks, vStale, g_OurMasterNodes,
                        g_InitialBlock, setValid, nNow, fIBD, vNodes, fAborted,
                        fMoveEmpties >>

\* The blocks h+1 .. h+k, without ballots, are connected one after the other;
\* the range is split in halves to keep the evaluation shallow.
RECURSIVE ConnectEmpty(_, _, _, _)
ConnectEmpty(st, h, k, valid) ==
    IF k = 0 THEN st
    ELSE IF k = 1
    THEN MN_OnConnectBlock(
           [ st EXCEPT !.blocks = SetBlock(st.blocks, h + 1, EmptyBlock) ],
           h + 1, valid)
    ELSE LET half == k \div 2
             st1  == ConnectEmpty(st, h, half, valid)
         IN  IF st1.elected = st1.elected
             THEN ConnectEmpty(st1, h + half, k - half, valid)
             ELSE st1

\* A sync: k new blocks arrive and are connected.
SyncBlocks(k) ==
    LET st == ConnectEmpty([ mns |-> g_MasterNodes, elected |-> g_ElectedMasternodes,
                             blocks |-> vBlocks ], nBestHeight, k, setValid)
    IN  /\ ~fAborted
        /\ nBestHeight' = nBestHeight + k
        /\ vBlocks' = st.blocks
        /\ vStale' = << >>
        /\ g_MasterNodes' = st.mns
        /\ g_ElectedMasternodes' = st.elected
        /\ last' = [ op |-> "sync", arg |-> k, ret |-> 0, pre |-> 0 ]
        /\ UNCHANGED fAborted
        /\ UnchangedByChain

\* The blocks h, h-1 .. h-k+1 are disconnected one after the other, until an
\* assert fails; st = [mns, elected, blocks, ok].
RECURSIVE DisconnectTop(_, _, _, _)
DisconnectTop(st, h, k, valid) ==
    IF k = 0 \/ ~st.ok THEN st
    ELSE IF k = 1
    THEN LET u == MN_OnDisconnectBlock(st, h, valid) IN
         [ mns |-> u.mns, elected |-> u.elected,
           blocks |-> DropBlock(st.blocks, h), ok |-> u.ok ]
    ELSE LET half == k \div 2
             st1  == DisconnectTop(st, h, half, valid)
         IN  IF st1.ok
             THEN DisconnectTop(st1, h - half, k - half, valid)
             ELSE st1

\* A reorganisation: the k blocks at the tip are disconnected; the branch
\* they were is abandoned.
ReorgBlocks(k) ==
    LET st == DisconnectTop([ mns |-> g_MasterNodes,
                              elected |-> g_ElectedMasternodes,
                              blocks |-> vBlocks, ok |-> TRUE ],
                            nBestHeight, k, setValid)
    IN  /\ ~fAborted
        /\ nBestHeight >= k
        /\ nBestHeight' = nBestHeight - k
        /\ vBlocks' = st.blocks
        /\ vStale' = << >>
        /\ g_MasterNodes' = st.mns
        /\ g_ElectedMasternodes' = st.elected
        /\ fAborted' = ~st.ok
        /\ last' = [ op |-> "reorg", arg |-> k, ret |-> st.ok, pre |-> 0 ]
        /\ UnchangedByChain

----------------------------------------------------------------------------
(* The intake machines *)

Peers == 1..MaxPeers

NoPeers == [ p \in Peers |-> [ setKnown |-> {}, vSend |-> << >> ] ]

\* A proof for `outpoint` about the block at height nBlock of the active
\* chain, signed with `key`.
Proof(outpoint, nBlock, key, nonce) ==
    LET m == [ outpoint |-> outpoint, nBlock |-> nBlock,
               hashBlock |-> BlockAt(vBlocks, nBlock).hashBlock ]
    IN  [ outpoint |-> m.outpoint, nBlock |-> m.nBlock, hashBlock |-> m.hashBlock,
          signature |-> Sign(key, << m.outpoint, m.nBlock, m.hashBlock >>, nonce) ]

\* The proofs the rule runs send: for nodes 1 and 2, at and around every
\* threshold of the age rules, signed by the owner or by somebody else.
RuleMsgs ==
    { Proof(o, nBestHeight + d, k, 1) :
        o \in {1, 2}, d \in {-101, -100, -60, -51, -50, 0},
        k \in {KeyOf(1), KeyOf(2)} }

\* The proofs the intake runs send for node 1: about the oldest block the
\* window admits at IntakeStart and, once it is connected, about the block
\* JumpLen above IntakeStart, with several signatures each.
IntakeMsgs ==
    { Proof(1, IntakeStart - 50, KeyOf(1), n) : n \in 1..MaxNonce }
      \cup { Proof(1, IntakeStart + JumpLen, KeyOf(1), n) :
               n \in IF nBestHeight >= IntakeStart + JumpLen
                     THEN 1..MaxNonce + 1 ELSE {} }

\* A node that has had ProofCap proofs accepted for the oldest block the
\* window admits at IntakeStart.
SpammedNode(outpoint) ==
    [ NewMasterNode(outpoint) EXCEPT !.existenceMsgs =
        [ i \in 1..ProofCap |->
            [ msg |-> Proof(outpoint, IntakeStart - 50, KeyOf(outpoint),
                            MaxNonce + i),
              nReceiveTime |-> << 0, 1 >> ] ] ]

\* The runs bound the lists they grow to n proofs; a list at the cap is
\* capped by the code itself.
WithinBounds(mnem, n) ==
    \/ ProofLen(g_MasterNodes, mnem.outpoint) < n
    \/ ProofLen(g_MasterNodes, mnem.outpoint) >= ProofCap
    \/ MN_ProcessExistenceMsg_Impl(g_MasterNodes, setValid, mnem, nBestHeight,
                                   nNow, fMoveEmpties).ret >= 0

InitRules ==
    /\ nBestHeight = IntakeStart
    /\ vBlocks = << >>
    /\ vStale = << >>
    /\ g_MasterNodes = << >>
    /\ g_OurMasterNodes = {}
    /\ g_ElectedMasternodes = {}
    /\ g_InitialBlock = IntakeStart
    /\ setValid \in SUBSET {1}
    /\ nNow = << 0, 1 >>
    /\ fIBD \in BOOLEAN
    /\ vNodes = NoPeers
    /\ fAborted = FALSE
    /\ fMoveEmpties = FALSE
    /\ last = NoCall

\* The rule machine: proofs of every age and provenance arrive, from peers
\* and from the local node, while the
\* collateral of node 1 comes and goes; node 2 has none.
NextRules ==
    \/ \E pfrom \in Peers \cup {NoPeer}, mnem \in RuleMsgs :
         WithinBounds(mnem, MaxMsgs) /\ MN_ProcessExistenceMsg(pfrom, mnem)
    \/ FinishIBD
    \/ ChangeCollateral(1)

SpecRules == InitRules /\ [][NextRules]_vars

InitIntake ==
    /\ nBestHeight = IntakeStart
    /\ vBlocks = << >>
    /\ vStale = << >>
    /\ fIBD \in BOOLEAN
    /\ fMoveEmpties \in BOOLEAN
    /\ g_MasterNodes = << >>
    /\ g_OurMasterNodes = {}
    /\ g_ElectedMasternodes = {}
    /\ g_InitialBlock = IntakeStart
    /\ setValid = {1}
    /\ nNow = << 0, 1 >>
    /\ vNodes = NoPeers
    /\ fAborted = FALSE
    /\ last = NoCall

\* The intake machine: proofs for node 1 arrive, also twice, while the chain
\* grows by JumpLen blocks and is reorganised back.
NextIntake ==
    \/ \E pfrom \in Peers, mnem \in IntakeMsgs :
         WithinBounds(mnem, MaxMsgs) /\ MN_ProcessExistenceMsg(pfrom, mnem)
    \/ FinishIBD
    \/ nBestHeight = IntakeStart /\ SyncBlocks(JumpLen)
    \/ nBestHeight = IntakeStart + JumpLen /\ ReorgBlocks(JumpLen)

SpecIntake == InitIntake /\ [][NextIntake]_vars

InitLifecycle ==
    /\ nBestHeight = IntakeStart
    /\ vBlocks = << >>
    /\ vStale = << >>
    /\ g_MasterNodes \in { << >>, [ x \in {1} |-> SpammedNode(x) ] }
    /\ g_OurMasterNodes = {}
    /\ g_ElectedMasternodes = {}
    /\ g_InitialBlock = IntakeStart
    /\ setValid = {1}
    /\ nNow = << 0, 1 >>
    /\ fIBD = FALSE
    /\ vNodes = NoPeers
    /\ fAborted = FALSE
    /\ fMoveEmpties = FALSE
    /\ last = NoCall

\* The lifecycle machine: node 1 is enrolled, stopped and elected, blocks
\* come and go, and proofs for it arrive, up to the cap and beyond.
NextLifecycle ==
    \/ \E pfrom \in Peers, mnem \in IntakeMsgs :
         WithinBounds(mnem, 1) /\ MN_ProcessExistenceMsg(pfrom, mnem)
    \/ nBestHeight < IntakeStart + MaxAdvance /\ SyncBlocks(1)
    \/ DisconnectBlock
    \/ ReconnectBlock
    \/ MN_Start(1, KeyOf(1))
    \/ MN_Stop(1)
    \/ \E my \in BOOLEAN : MN_SetMy(1, my)
    \/ \E elect \in BOOLEAN : ElectRequest(1, elect)

SpecLifecycle == InitLifecycle /\ [][NextLifecycle]_vars

----------------------------------------------------------------------------
(* C5: outside initial block download the outcome of an ingest is that of   *)
(* the first matching rule: a proof more than 100 blocks below the tip      *)
(* costs its sender 20; else one more than 50 below is ignored without      *)
(* penalty; else a node that is neither registered nor backed by a valid    *)
(* collateral costs 20; else a signature that does not recover to the       *)
(* record's owner costs 100.  A rule that matches leaves the proof list as  *)
(* it was and forwards nothing.                                             *)
C5_FirstMatchingRule ==
    (last.op = "ingest" /\ ~last.pre.ibd) =>
        LET mnem == last.arg.mnem
            h    == last.pre.height
            Dropped(n) ==
                /\ last.ret.misbehave = n
                /\ last.ret.penalty = IF last.arg.pfrom # NoPeer THEN n ELSE 0
                /\ ~last.ret.relayed
                /\ ProofLen(g_MasterNodes, mnem.outpoint) = last.pre.len
        IN  IF mnem.nBlock < h - 100 THEN Dropped(20)
            ELSE IF mnem.nBlock < h - 50 THEN Dropped(0)
            ELSE IF ~(last.pre.known \/ last.pre.valid) THEN Dropped(20)
            ELSE IF RecoverCompact(GetHashForSignature(mnem), mnem.signature)
                      # g_MasterNodes[mnem.outpoint].keyid
            THEN Dropped(100)
            ELSE last.ret.misbehave # 100

\* A peer's too-old proof with a forged signature has been penalized 20.
C5_Witness ==
    /\ last.op = "ingest"
    /\ ~last.pre.ibd
    /\ last.arg.pfrom # NoPeer
    /\ last.arg.mnem.nBlock < last.pre.height - 100
    /\ RecoverCompact(GetHashForSignature(last.arg.mnem), last.arg.mnem.signature)
         # KeyOf(last.arg.mnem.outpoint)
    /\ last.ret.penalty = 20

(* C6: ingesting a proof that was accepted before, which the sender's      *)
(* seen-set then records, while its height is inside the accepted window,   *)
(* leaves the node's proof list and misbehaving flag as they were,          *)
(* penalizes nobody and is not relayed.                                     *)
C6_DuplicateIsInert ==
    ( /\ last.op = "ingest"
      /\ last.pre.seen
      /\ last.arg.mnem.nBlock >= last.pre.height - 50 )
    => ( /\ ProofLen(g_MasterNodes, last.arg.mnem.outpoint) = last.pre.len
         /\ g_MasterNodes[last.arg.mnem.outpoint].misbehaving = last.pre.flag
         /\ last.ret.penalty = 0
         /\ ~last.ret.relayed )

(* C7: no node's proof list ever holds two entries with the same message    *)
(* identity hash.                                                           *)
C7_NoDuplicateProofs ==
    \A outpoint \in DOMAIN g_MasterNodes :
        LET v == g_MasterNodes[outpoint].existenceMsgs IN
        \A i, j \in 1..Len(v) :
            i # j => GetHash(v[i].msg) # GetHash(v[j].msg)

(* C8: the misbehaving flag of a record, once set, stays set over every     *)
(* step: ingest, MN_Start, MN_Stop, MN_SetMy, MN_Elect, connect, disconnect.*)
C8_MisbehavingIsSticky ==
    [][ \A outpoint \in DOMAIN g_MasterNodes :
          g_MasterNodes[outpoint].misbehaving
          => ( /\ outpoint \in DOMAIN g_MasterNodes'
               /\ g_MasterNodes'[outpoint].misbehaving ) ]_vars

\* A node marked misbehaving has since been elected, stopped and is still
\* marked.
C8_Witness ==
    /\ 1 \in DOMAIN g_MasterNodes
    /\ g_MasterNodes[1].misbehaving
    /\ 1 \in g_ElectedMasternodes
    /\ last.op = "stop"
    /\ last.ret

----------------------------------------------------------------------------
(* C1: MN_OnConnectBlock(b) immediately followed by MN_OnDisconnectBlock(b)  *)
(* leaves the elected roster as it was before the connect, and every        *)
(* inverse flip of the disconnect succeeds (the assert never fails),        *)
(* whatever the ballots of the trailing window hold.                        *)
C1_ConnectDisconnectRoundTrip ==
    (last.op = "disconnect" /\ last.pre.after \in {"connect", "reconnect"}
       /\ last.pre.afterArg = last.arg)
    => (last.ret /\ ~fAborted /\ g_ElectedMasternodes = last.pre.before)

----------------------------------------------------------------------------
(* C2: the roster is a function of the ledger alone; in particular the      *)
(* replay of all blocks by MN_LoadElections rebuilds the roster that the    *)
(* incremental connects of the same blocks had produced.                    *)
C2_ReplayRebuildsRoster ==
    last.op = "load" => g_ElectedMasternodes = last.pre.elected

----------------------------------------------------------------------------
(* VoteComputer *)

\* set_differences over two ordered sets, given as ascending sequences: the
\* merge loop, returning what it appends to resultA and resultB.
RECURSIVE set_differences(_, _)
set_differences(A, B) ==
    IF A = << >> THEN [ resultA |-> << >>, resultB |-> B ]
    ELSE IF B = << >> THEN [ resultA |-> A, resultB |-> << >> ]
    ELSE IF Head(A) < Head(B)
         THEN LET r == set_differences(Tail(A), B) IN
              [ resultA |-> << Head(A) >> \o r.resultA, resultB |-> r.resultB ]
    ELSE IF Head(B) < Head(A)
         THEN LET r == set_differences(A, Tail(B)) IN
              [ resultA |-> r.resultA, resultB |-> << Head(B) >> \o r.resultB ]
    ELSE set_differences(Tail(A), Tail(B))

\* std::vector::resize: a prefix, or the vector padded with null outpoints.
Resize(v, n) ==
    IF n <= Len(v) THEN SubSeq(v, 1, n)
    ELSE v \o [ i \in 1..(n - Len(v)) |-> NullOutpoint ]

\* round() of the non-negative quotient p/q: halves go away from zero.
Round(p, q) == (2 * p + q) \div (2 * q)

\* boost::algorithm::clamp(val, lo, hi)
Clamp(val, lo, hi) == IF val < lo THEN lo ELSE IF hi < val THEN hi ELSE val

\* NumVotes0 with the clamp forgotten
NumVotes0_NoClamp(n0, n1) ==
    IF n0 = 0 THEN 0
    ELSE IF n1 = 0 THEN g_MaxMasternodeVotes
    ELSE Round(n0 * g_MaxMasternodeVotes, n0 + n1)

\* numVotes0 of MN_CastVotes for lists of n0 and n1 votes (n0 + n1 over budget)
NumVotes0(n0, n1) ==
    IF n0 = 0 THEN 0
    ELSE IF n1 = 0 THEN g_MaxMasternodeVotes
    ELSE Clamp(Round(n0 * g_MaxMasternodeVotes, n0 + n1), 1, g_MaxMasternodeVotes - 1)

\* The candidate roster MN_CastVotes compares the elected roster with.
NewMasternodes == {}

\* MN_CastVotes(vvotes): vvotes is the caller's pair of vectors, filled in place.
MN_CastVotes(vvotes, height, initial, elected) ==
    IF height < initial + g_MonitoringPeriodMin
    THEN [ vvotes |-> << << >>, << >> >>, full |-> << << >>, << >> >> ]
    ELSE LET d  == set_differences(SortedSeq(elected), SortedSeq(NewMasternodes))
             v0 == vvotes[1] \o d.resultA
             v1 == vvotes[2] \o d.resultB
             totalVotes == Len(v0) + Len(v1)
             numVotes0  == NumVotes0(Len(v0), Len(v1))
         IN  IF totalVotes > g_MaxMasternodeVotes
             THEN [ vvotes |-> << Resize(v0, numVotes0),
                                  Resize(v1, g_MaxMasternodeVotes - numVotes0) >>,
                    full |-> << v0, v1 >> ]
             ELSE [ vvotes |-> << v0, v1 >>, full |-> << v0, v1 >> ]

VoteOutpoints == 1..MaxVoteOutpoint

\* What a caller's vector may hold on entry: nothing, or votes it already put.
PriorVotes == { SubSeq(SortedSeq(VoteOutpoints), 1, n) : n \in 0..MaxPriorVotes }

\* compute_local_votes: a block template is built and the votes are cast.
CastVotes(prior) ==
    LET r == MN_CastVotes(prior, nBestHeight, g_InitialBlock, g_ElectedMasternodes)
    IN  /\ ~fAborted
        /\ last' = [ op |-> "castvotes", arg |-> prior, ret |-> r.vvotes,
                     pre |-> [ full |-> r.full,
                               enabled |-> nBestHeight >= g_InitialBlock
                                                          + g_MonitoringPeriodMin ] ]
        /\ UNCHANGED << nBestHeight, vBlocks, vStale, g_MasterNodes,
                        g_OurMasterNodes, g_ElectedMasternodes, g_InitialBlock,
                        setValid, nNow, fIBD, vNodes, fAborted, fMoveEmpties >>

\* The vote machine: any roster over a registry of known nodes, one of which
\* may be misbehaving, just before and after the monitoring minimum.
InitVotes ==
    /\ g_InitialBlock = 1
    /\ nBestHeight \in { g_InitialBlock + g_MonitoringPeriodMin - 1,
                         g_InitialBlock + g_MonitoringPeriodMin }
    /\ vBlocks = << >>
    /\ vStale = << >>
    /\ g_ElectedMasternodes \in SUBSET VoteOutpoints
    /\ \E known \in SUBSET VoteOutpoints, bad \in SUBSET {1} :
         /\ g_ElectedMasternodes \subseteq known
         /\ bad \subseteq known
         /\ g_MasterNodes = [ x \in known |->
                [ NewMasterNode(x) EXCEPT !.misbehaving = (x \in bad) ] ]
    /\ g_OurMasterNodes = {}
    /\ setValid = VoteOutpoints
    /\ nNow = << 0, 1 >>
    /\ fIBD = FALSE
    /\ vNodes = << >>
    /\ fAborted = FALSE
    /\ fMoveEmpties = FALSE
    /\ last = NoCall

NextVotes ==
    \E p0 \in PriorVotes, p1 \in PriorVotes : CastVotes(<< p0, p1 >>)

SpecVotes == InitVotes /\ [][NextVotes]_vars

----------------------------------------------------------------------------
(* C3: MN_CastVotes produces the ordered difference between the elected     *)
(* roster and the ranked candidate list: an elected outpoint outside the    *)
(* candidates becomes a remove-vote, a known non-misbehaving node that is   *)
(* not elected becomes an add-vote (budget permitting), and an elected      *)
(* candidate receives no remove-vote.  The registry of these runs is        *)
(* smaller than any roster limit, so every known non-misbehaving node       *)
(* ranks among the candidates.                                              *)
RankedCandidates ==
    { x \in DOMAIN g_MasterNodes : ~g_MasterNodes[x].misbehaving }

C3_VotesAreRosterDifference ==
    (last.op = "castvotes" /\ last.pre.enabled
       /\ last.arg = << << >>, << >> >>
       /\ Cardinality((g_ElectedMasternodes \ RankedCandidates)
                      \cup (RankedCandidates \ g_ElectedMasternodes))
            <= g_MaxMasternodeVotes)
    => /\ \A x \in g_ElectedMasternodes \ RankedCandidates : x \in Range(last.ret[1])
       /\ \A x \in RankedCandidates \ g_ElectedMasternodes : x \in Range(last.ret[2])
       /\ \A x \in g_ElectedMasternodes \cap RankedCandidates : x \notin Range(last.ret[1])

----------------------------------------------------------------------------
(* C4: when the untruncated add-votes plus remove-votes exceed the budget,  *)
(* the two apportioned sizes sum to exactly the budget, neither list is     *)
(* reduced to zero when both were non-empty, and each list is cut to a      *)
(* prefix of itself, never padded.                                          *)
C4_Apportionment ==
    (last.op = "castvotes" /\ last.pre.enabled
       /\ Len(last.pre.full[1]) + Len(last.pre.full[2]) > g_MaxMasternodeVotes)
    => /\ Len(last.ret[1]) + Len(last.ret[2]) = g_MaxMasternodeVotes
       /\ (last.pre.full[1] # << >> /\ last.pre.full[2] # << >>)
            => (last.ret[1] # << >> /\ last.ret[2] # << >>)
       /\ \A j \in 1..2 :
            /\ Len(last.ret[j]) <= Len(last.pre.full[j])
            /\ last.ret[j] = Prefix(last.pre.full[j], Len(last.ret[j]))

C4_Witness ==
    /\ last.op = "castvotes" /\ last.pre.enabled
    /\ Len(last.pre.full[1]) + Len(last.pre.full[2]) > g_MaxMasternodeVotes
    /\ last.pre.full[1] # << >> /\ last.pre.full[2] # << >>
    /\ Len(last.ret[1]) < Len(last.pre.full[1])

----------------------------------------------------------------------------
(* Scoring *)

\* Times are 64-bit millisecond counts: << hi, lo >> stands for
\* hi * TimeBase + lo.
TimeBase == 10000 * 10000

BigAdd(a, b) ==
    << a[1] + b[1] + (a[2] + b[2]) \div TimeBase, (a[2] + b[2]) % TimeBase >>

\* a - b, for a >= b
BigSub(a, b) ==
    IF a[2] < b[2] THEN << a[1] - b[1] - 1, a[2] - b[2] + TimeBase >>
    ELSE << a[1] - b[1], a[2] - b[2] >>

BigLess(a, b) == a[1] < b[1] \/ (a[1] = b[1] /\ a[2] < b[2])

\* a * k, for a small k
BigTimes(a, k) ==
    << a[1] * k + (a[2] * k) \div TimeBase, (a[2] * k) % TimeBase >>

\* The 64 bits GetExistenceBlocks takes from the hash of a seed block's hash
\* and an outpoint
Hash64(hashBlock, outpoint) == hashBlock + outpoint

\* The inner loop without the bound that keeps the trailing restart period
ChallengesOfSeed_NoTrailingBound(nSeedBlock, height, outpoint, blocks) ==
    LET pSeedBlock == BlockAt(blocks, nSeedBlock - g_AnnounceExistencePeriod)
        Shift == Hash64(pSeedBlock.hashBlock, outpoint) % g_AnnounceExistencePeriod
    IN  { j \in (nSeedBlock + Shift)..(nSeedBlock + g_AnnounceExistenceRestartPeriod - 1) :
            /\ (j - nSeedBlock - Shift) % g_AnnounceExistencePeriod = 0
            /\ j <= height }

\* The inner loop of GetExistenceBlocks for one seed block
ChallengesOfSeed(nSeedBlock, height, outpoint, blocks) ==
    LET pSeedBlock == BlockAt(blocks, nSeedBlock - g_AnnounceExistencePeriod)
        Shift == Hash64(pSeedBlock.hashBlock, outpoint) % g_AnnounceExistencePeriod
    IN  { j \in (nSeedBlock + Shift)..(nSeedBlock + g_AnnounceExistenceRestartPeriod - 1) :
            /\ (j - nSeedBlock - Shift) % g_AnnounceExistencePeriod = 0
            /\ j <= height
            /\ j > height - g_AnnounceExistenceRestartPeriod }

\* CMasterNode::GetExistenceBlocks: the seed block before the current one
\* first, each seed's heights ascending.
GetExistenceBlocks(height, outpoint, blocks) ==
    IF height < 4 * g_AnnounceExistenceRestartPeriod THEN << >>
    ELSE LET nBlock == (height \div g_AnnounceExistenceRestartPeriod)
                         * g_AnnounceExistenceRestartPeriod
         IN  SortedSeq(ChallengesOfSeed(nBlock - g_AnnounceExistenceRestartPeriod,
                                        height, outpoint, blocks))
               \o SortedSeq(ChallengesOfSeed(nBlock, height, outpoint, blocks))

\* A score is the quotient of a sum of milliseconds and 1000 times a block
\* count: [ms, n] stands for ms * 0.001 / n.
ScoreLess(a, b) == BigLess(BigTimes(a.ms, b.n), BigTimes(b.ms, a.n))

\* 99999999999.0 seconds
Sentinel == [ ms |-> << 999999, 99999000 >>, n |-> 1 ]

\* The timeDelta of GetScore for one challenge block, in milliseconds
TimeDelta(v, h, pBlock) ==
    LET hits == { j \in 1..Len(v) : /\ v[j].msg.nBlock = h
                                    /\ v[j].msg.hashBlock = pBlock.hashBlock }
    IN  IF hits = {} THEN << 0, g_PenaltyTime * 1000 >>
        ELSE LET received == v[Min(hits)].nReceiveTime IN
             IF pBlock.nReceiveTime = << 0, 0 >>
                  \/ BigLess(received, pBlock.nReceiveTime)
             THEN << 0, 0 >>
             ELSE BigSub(received, pBlock.nReceiveTime)

RECURSIVE SumDeltas(_, _, _)
SumDeltas(v, hs, blocks) ==
    IF hs = << >> THEN << 0, 0 >>
    ELSE BigAdd(TimeDelta(v, Head(hs), BlockAt(blocks, Head(hs))),
                SumDeltas(v, Tail(hs), blocks))

\* CMasterNode::GetScore
GetScore(mn, height, initial, blocks) ==
    IF mn.misbehaving THEN Sentinel
    ELSE LET vblocks == GetExistenceBlocks(height, mn.outpoint, blocks)
             counted == SelectSeq(vblocks, LAMBDA h : h > initial)
         IN  [ ms |-> SumDeltas(mn.existenceMsgs, counted, blocks),
               n  |-> IF counted = << >> THEN 1 ELSE Len(counted) ]

----------------------------------------------------------------------------
(* MN_ProcessBlocks *)

\* The loop of MN_ProcessBlocks over g_OurMasterNodes for the block at h;
\* st = [mns, blocks, nodes], `our` the nodes still to visit, ascending.
RECURSIVE AnnounceOurs(_, _, _, _, _, _, _)
AnnounceOurs(st, our, h, height, now, valid, empties) ==
    IF our = << >> THEN st
    ELSE LET mn == st.mns[Head(our)]
             pBlock == BlockAt(st.blocks, h)
             body == [ outpoint |-> mn.outpoint, nBlock |-> h,
                       hashBlock |-> pBlock.hashBlock ]
             mnem == [ outpoint |-> mn.outpoint, nBlock |-> h,
                       hashBlock |-> pBlock.hashBlock,
                       signature |-> Sign(mn.privkey, GetHashForSignature(body), 1) ]
             r == MN_ProcessExistenceMsg_Impl(st.mns, valid, mnem, height, now,
                                              empties)
         IN  IF h \notin Range(GetExistenceBlocks(height, mn.outpoint, st.blocks))
             THEN AnnounceOurs(st, Tail(our), h, height, now, valid, empties)
             ELSE AnnounceOurs(
                    [ st EXCEPT !.mns = r.mns,
                                !.nodes = IF r.ret >= 0 THEN @
                                          ELSE Relay(@, NoPeer, GetHash(mnem)) ],
                    Tail(our), h, height, now, valid, empties)

\* The loop of MN_ProcessBlocks from the tip down
RECURSIVE StampBlocks(_, _, _, _, _, _, _, _)
StampBlocks(st, h, initial, our, height, now, valid, empties) ==
    IF ~(h > initial /\ BlockAt(st.blocks, h).nReceiveTime = << 0, 0 >>) THEN st
    ELSE StampBlocks(
           AnnounceOurs(
             [ st EXCEPT !.blocks =
                 SetBlock(@, h, [ BlockAt(@, h) EXCEPT !.nReceiveTime = now ]) ],
             our, h, height, now, valid, empties),
           h - 1, initial, our, height, now, valid, empties)

MN_ProcessBlocks ==
    LET initial == IF g_InitialBlock = 0 THEN nBestHeight ELSE g_InitialBlock
        st == StampBlocks([ mns |-> g_MasterNodes, blocks |-> vBlocks,
                            nodes |-> vNodes ],
                          nBestHeight, initial, SortedSeq(g_OurMasterNodes),
                          nBestHeight, nNow, setValid, fMoveEmpties)
    IN  /\ ~fAborted
        /\ ~fIBD
        /\ \A outpoint \in g_OurMasterNodes :
             g_MasterNodes[outpoint].privkey # NoKey
        /\ g_InitialBlock' = initial
        /\ g_MasterNodes' = st.mns
        /\ vBlocks' = st.blocks
        /\ vNodes' = st.nodes
        /\ last' = [ op |-> "process", arg |-> nBestHeight, ret |-> 0, pre |-> 0 ]
        /\ UNCHANGED << nBestHeight, vStale, g_OurMasterNodes, g_ElectedMasternodes,
                        setValid, nNow, fIBD, fAborted, fMoveEmpties >>

\* The monotone clock advances by d.
Tick(d) ==
    /\ ~fAborted
    /\ nNow' = BigAdd(nNow, d)
    /\ UNCHANGED << nBestHeight, vBlocks, vStale, g_MasterNodes, g_OurMasterNodes,
                    g_ElectedMasternodes, g_InitialBlock, setValid, fIBD, vNodes,
                    fAborted, fMoveEmpties, last >>

----------------------------------------------------------------------------
(* The scoring machine *)

\* A node that was marked misbehaving: it holds one proof more than ProofCap.
MisbehavingNode(outpoint) ==
    [ NewMasterNode(outpoint) EXCEPT
        !.misbehaving = TRUE,
        !.existenceMsgs =
          [ i \in 1..ProofCap + 1 |->
              [ msg |-> Proof(outpoint, ScoreStart - 50, KeyOf(outpoint), i),
                nReceiveTime |-> << 0, 1 >> ] ] ]

\* A node started on this host
OurNode(outpoint) ==
    [ NewMasterNode(outpoint) EXCEPT !.my = TRUE, !.privkey = KeyOf(outpoint) ]

InitScore ==
    /\ nBestHeight = ScoreStart
    /\ vBlocks = << >>
    /\ vStale = << >>
    /\ g_OurMasterNodes \in { {}, {1} }
    /\ g_MasterNodes = [ x \in {1, 2} |->
                           IF x = 2 THEN MisbehavingNode(x)
                           ELSE IF x \in g_OurMasterNodes THEN OurNode(x)
                           ELSE NewMasterNode(x) ]
    /\ g_ElectedMasternodes = {}
    /\ g_InitialBlock = 0
    /\ setValid = {1, 2}
    /\ nNow = << 0, 1 >>
    /\ fIBD = FALSE
    /\ vNodes = NoPeers
    /\ fAborted = FALSE
    /\ fMoveEmpties = FALSE
    /\ last = NoCall

\* The delays of the scoring runs: a second, and the long one.
Delays == { << 0, 1000 >>, << LateHi, 0 >> }

\* The scoring machine: blocks arrive and are stamped, the clock advances,
\* and peers send node 1's proof for the tip when the tip is one of its
\* challenge blocks.
NextScore ==
    \/ nBestHeight < ScoreStart + MaxScoreAdvance /\ SyncBlocks(1)
    \/ MN_ProcessBlocks
    \/ \E d \in Delays :
         /\ BigLess(BigAdd(nNow, d), << LateHi, MaxTicks * 1000 + 2 >>)
         /\ BigAdd(nNow, d)[2] < MaxTicks * 1000 + 2
         /\ Tick(d)
    \/ \E pfrom \in Peers,
          b \in Range(GetExistenceBlocks(nBestHeight, 1, vBlocks))
                  \cap {nBestHeight} :
         MN_ProcessExistenceMsg(pfrom, Proof(1, b, KeyOf(1), 1))

SpecScore == InitScore /\ [][NextScore]_vars

(* C9: a node with misbehaving = true scores strictly worse than every node *)
(* with misbehaving = false, whatever the proofs the latter holds and       *)
(* whenever its blocks and proofs were received.                            *)
C9_MisbehavingScoresWorst ==
    \A a, b \in DOMAIN g_MasterNodes :
        (g_MasterNodes[a].misbehaving /\ ~g_MasterNodes[b].misbehaving)
        => ScoreLess(GetScore(g_MasterNodes[b], nBestHeight, g_InitialBlock, vBlocks),
                     GetScore(g_MasterNodes[a], nBestHeight, g_InitialBlock, vBlocks))

----------------------------------------------------------------------------
(* The payee machine *)

PayeeOutpoints == 1..MaxPayee

\* The rosters the payee runs start from: around the two thresholds
PayeeRosters ==
    { 1..n : n \in { g_MasternodesStopPayments - 1, g_MasternodesStopPayments,
                     g_MasternodesStartPayments - 1, g_MasternodesStartPayments } }

InitPayee ==
    /\ nBestHeight = PayeeStart
    /\ \E mn \in { NullOutpoint, 1, g_MasternodesStopPayments - 1,
                   g_MasternodesStopPayments, g_MasternodesStartPayments, MaxPayee } :
         vBlocks = SetBlock(<< >>, PayeeStart, [ EmptyBlock EXCEPT !.mn = mn ])
    /\ vStale = << >>
    /\ g_MasterNodes = [ x \in PayeeOutpoints |-> NewMasterNode(x) ]
    /\ g_OurMasterNodes = {}
    /\ g_ElectedMasternodes \in PayeeRosters
    /\ g_InitialBlock = 0
    /\ setValid = PayeeOutpoints
    /\ nNow = << 0, 1 >>
    /\ fIBD = FALSE
    /\ vNodes = << >>
    /\ fAborted = FALSE
    /\ fMoveEmpties = FALSE
    /\ last = NoCall

\* The payee machine: blocks without ballots are connected, and the two
\* ends of the roster are elected and de-elected in between.
NextPayee ==
    \/ nBestHeight < PayeeStart + MaxPayeeAdvance
         /\ ConnectBlock(<< << >>, << >> >>, 0)
    \/ \E outpoint \in { 1, MaxPayee }, elect \in BOOLEAN :
         ElectRequest(outpoint, elect)

SpecPayee == InitPayee /\ [][NextPayee]_vars

(* C10: MN_NextPayee with a null previous payee returns none while the      *)
(* roster has fewer than 150 elements and the smallest outpoint of the      *)
(* roster otherwise; with a non-null previous payee and a roster of at      *)
(* least 100 elements it returns the smallest roster element strictly       *)
(* greater than the previous payee, or the smallest element of the roster   *)
(* when there is none.                                                      *)
C10_NextPayee ==
    (last.op = "connect" /\ last.arg > nThirdHardforkBlock) =>
        LET roster == g_ElectedMasternodes
            prev   == BlockAt(vBlocks, last.arg - 1).mn
            above  == { x \in roster : x > prev }
        IN  /\ (prev = NullOutpoint /\ Cardinality(roster) < 150)
                 => last.ret = NullOutpoint
            /\ (prev = NullOutpoint /\ Cardinality(roster) >= 150)
                 => last.ret = Min(roster)
            /\ (prev # NullOutpoint /\ Cardinality(roster) >= 100 /\ above # {})
                 => last.ret = Min(above)
            /\ (prev # NullOutpoint /\ Cardinality(roster) >= 100 /\ above = {})
                 => last.ret = Min(roster)

\* The previous payee was the roster's maximum and the rotation has wrapped
\* to its minimum.
C10_Witness ==
    /\ last.op = "connect"
    /\ last.arg > nThirdHardforkBlock
    /\ Cardinality(g_ElectedMasternodes) >= 100
    /\ BlockAt(vBlocks, last.arg - 1).mn = MaxPayee
    /\ MaxPayee \in g_ElectedMasternodes
    /\ last.ret = 1

(* C11: when the previous payee is non-null and no longer a member of the   *)
(* roster, MN_NextPayee returns the first element of the roster's order.    *)
C11_AbsentPayeeWraps ==
    ( /\ last.op = "connect"
      /\ last.arg > nThirdHardforkBlock
      /\ BlockAt(vBlocks, last.arg - 1).mn # NullOutpoint
      /\ BlockAt(vBlocks, last.arg - 1).mn \notin g_ElectedMasternodes
      /\ Cardinality(g_ElectedMasternodes) >= g_MasternodesStopPayments )
    => last.ret = Min(g_ElectedMasternodes)

C13_ReconnectRecordIsFresh ==
    (last.op = "reconnect" /\ last.arg > nThirdHardforkBlock) =>
        LET b == BlockAt(vBlocks, last.arg)
            u == MN_OnDisconnectBlock(
                   [ mns |-> g_MasterNodes, elected |-> g_ElectedMasternodes,
                     blocks |-> vBlocks ], last.arg, setValid)
        IN  /\ \A j \in 1..2 : Len(b.velected[j]) = Cardinality(Range(b.velected[j]))
            /\ u.ok
            /\ u.elected = last.pre.elected

(* C14: immediately after an ingest that accepted a proof for a node, that  *)
(* node's proof list holds no proof whose block height is below the         *)
(* current height minus twice the monitoring period: Cleanup has removed    *)
(* every such entry and shortened the list, so the list is the in-window    *)
(* proofs it held before followed by the new proof.                         *)
C14_AcceptLeavesNoOldProof ==
    (last.op = "ingest" /\ last.ret.misbehave = -1) =>
        LET v == g_MasterNodes[last.arg.mnem.outpoint].existenceMsgs IN
        \A i \in 1..Len(v) :
            v[i].msg.nBlock >= last.pre.height - 2 * g_MonitoringPeriod

----------------------------------------------------------------------------
(* The proof cap and an honest node *)

CapStart == 1100          \* tip height at which the cap machine starts
CapHistory == 200         \* challenge blocks the honest node has answered so far
MaxCapAdvance == 12       \* blocks the cap machine connects above CapStart

\* The last challenge block of an outpoint at a height (GetExistenceBlocks
\* returns them in ascending order).
LastChallenge(height, outpoint, blocks) ==
    LET c == GetExistenceBlocks(height, outpoint, blocks) IN c[Len(c)]

\* The i-th challenge block the honest node has answered: one every
\* g_AnnounceExistencePeriod blocks, the last of them the latest challenge
\* block at CapStart.
HonestBlock(outpoint, i) ==
    LastChallenge(CapStart, outpoint, << >>)
      - g_AnnounceExistencePeriod * (CapHistory - i)

\* AddExistenceMsg applied to the honest proofs lo..hi in turn, each arriving
\* when its challenge block is the tip.
RECURSIVE HonestHistory(_, _, _, _)
HonestHistory(mn, lo, hi, empties) ==
    IF lo > hi THEN mn
    ELSE IF lo = hi
    THEN AddExistenceMsg(mn,
                         Proof(mn.outpoint, HonestBlock(mn.outpoint, lo),
                               KeyOf(mn.outpoint), 1),
                         HonestBlock(mn.outpoint, lo), << 0, 1 >>, empties).mn
    ELSE LET mid == (lo + hi) \div 2
             m1  == HonestHistory(mn, lo, mid, empties)
         IN  IF m1.misbehaving = m1.misbehaving
             THEN HonestHistory(m1, mid + 1, hi, empties)
             ELSE m1

\* The one proof an honest node sends for a challenge block.
HonestMsgs ==
    { Proof(1, c, KeyOf(1), 1) :
        c \in Range(GetExistenceBlocks(nBestHeight, 1, vBlocks)) }

InitCap ==
    /\ nBestHeight = CapStart
    /\ vBlocks = << >>
    /\ vStale = << >>
    /\ fIBD = FALSE
    /\ fMoveEmpties \in BOOLEAN
    /\ g_MasterNodes = [ x \in {1} |->
                           HonestHistory(NewMasterNode(x), 1, CapHistory,
                                         fMoveEmpties) ]
    /\ g_OurMasterNodes = {}
    /\ g_ElectedMasternodes = {}
    /\ g_InitialBlock = CapStart
    /\ setValid = {1}
    /\ nNow = << 0, 1 >>
    /\ vNodes = NoPeers
    /\ fAborted = FALSE
    /\ last = NoCall

\* The cap machine: the chain grows block by block and node 1 answers its
\* challenge blocks, each once.
NextCap ==
    \/ \E pfrom \in Peers, mnem \in HonestMsgs :
         /\ ~HoldsHash(g_MasterNodes[1].existenceMsgs, GetHash(mnem))
         /\ MN_ProcessExistenceMsg(pfrom, mnem)
    \/ nBestHeight < CapStart + MaxCapAdvance /\ SyncBlocks(1)

SpecCap == InitCap /\ [][NextCap]_vars

\* The proofs a list holds for blocks in the window Cleanup keeps: an entry
\* std::remove_if moved from, and a second copy of a proof, is no proof more.
InWindow(v, height) ==
    { GetHash(v[i].msg) : i \in { k \in 1..Len(v) :
                                    /\ ~IsOld(v[k], height)
                                    /\ v[k].msg.signature # EmptySignature } }

(* C15: an ingest marks a node misbehaving only when the node holds more    *)
(* than the cap of proofs whose heights lie in the trailing window; a node  *)
(* that has exactly one valid proof ingested per challenge block is never   *)
(* marked misbehaving.                                                      *)
C15_MarkedOnlyAboveCap ==
    ( /\ last.op = "ingest"
      /\ ~last.pre.flag
      /\ g_MasterNodes[last.arg.mnem.outpoint].misbehaving )
    => Cardinality(InWindow(g_MasterNodes[last.arg.mnem.outpoint].existenceMsgs,
                            last.pre.height)) > ProofCap

----------------------------------------------------------------------------
(* The relay *)

MaxRelayPeers == 2        \* connected peers of the relay machine

RelayPeers == 1..MaxRelayPeers

\* The proofs of the relay machine: one for a block behind the tip at
\* IntakeStart, one signed with a key that is not the node's, and, once the
\* chain has grown, two for the new tip.
RelayMsgs ==
    { Proof(1, IntakeStart - 50, KeyOf(1), 1), Proof(1, IntakeStart - 50, KeyOf(2), 1) }
      \cup { Proof(1, IntakeStart + JumpLen, KeyOf(1), n) :
               n \in IF nBestHeight >= IntakeStart + JumpLen
                     THEN 1..MaxNonce ELSE {} }

InitRelay ==
    /\ nBestHeight = IntakeStart
    /\ vBlocks = << >>
    /\ vStale = << >>
    /\ fIBD \in BOOLEAN
    /\ fMoveEmpties = FALSE
    /\ g_MasterNodes = << >>
    /\ g_OurMasterNodes = {}
    /\ g_ElectedMasternodes = {}
    /\ g_InitialBlock = IntakeStart
    /\ setValid = {1}
    /\ nNow = << 0, 1 >>
    /\ vNodes = [ p \in RelayPeers |-> [ setKnown |-> {}, vSend |-> << >> ] ]
    /\ fAborted = FALSE
    /\ last = NoCall

\* The relay machine: proofs for node 1 arrive from the peers and from the
\* local node, while the chain grows by JumpLen blocks and is reorganised
\* back.
NextRelay ==
    \/ \E pfrom \in RelayPeers \cup {NoPeer}, mnem \in RelayMsgs :
         WithinBounds(mnem, MaxMsgs) /\ MN_ProcessExistenceMsg(pfrom, mnem)
    \/ FinishIBD
    \/ nBestHeight = IntakeStart /\ SyncBlocks(JumpLen)
    \/ nBestHeight = IntakeStart + JumpLen /\ ReorgBlocks(JumpLen)

SpecRelay == InitRelay /\ [][NextRelay]_vars

(* C16: a proof is pushed to peers only by an ingest that accepted it; the  *)
(* ingest pushes it to exactly the connected peers, other than the sender,  *)
(* whose setKnown did not hold its hash; and no peer is ever pushed the     *)
(* same hash twice.                                                         *)
C16_RelayToUnseenPeersOnce ==
    [][ /\ \A p \in DOMAIN vNodes :
             vNodes'[p].vSend =
               IF /\ last'.op = "ingest"
                  /\ last'.ret.misbehave < 0
                  /\ p # last'.arg.pfrom
                  /\ GetHash(last'.arg.mnem) \notin vNodes[p].setKnown
               THEN Append(vNodes[p].vSend, GetHash(last'.arg.mnem))
               ELSE vNodes[p].vSend
        /\ \A p \in DOMAIN vNodes' :
             Len(vNodes'[p].vSend) = Cardinality(Range(vNodes'[p].vSend)) ]_vars

\* A proof has been accepted a second time (its first copy had been
\* overwritten in the list): the peer that was pushed it the first time and
\* is not the sender now still has it once in its queue, and the sender has
\* not been pushed it now.
C16_Witness ==
    /\ last.op = "ingest"
    /\ last.ret.misbehave < 0
    /\ last.arg.pfrom # NoPeer
    /\ last.arg.mnem.nBlock = IntakeStart - 50
    /\ Len(g_MasterNodes[1].existenceMsgs) > 3
    /\ \E p \in DOMAIN vNodes :
         /\ p # last.arg.pfrom
         /\ Occurrences(vNodes[p].vSend, GetHash(last.arg.mnem)) = 1

----------------------------------------------------------------------------
(* The rotation over a roster that does not change *)

MaxRotation == 152        \* blocks the rotation machine connects above PayeeStart

\* The rosters of the rotation runs: at the stop threshold, with and without
\* a gap before the last element, and at the start threshold.
RotationRosters ==
    { 1..g_MasternodesStopPayments,
      (1..(g_MasternodesStopPayments - 1)) \cup {MaxPayee},
      1..g_MasternodesStartPayments }

InitRotation ==
    /\ nBestHeight = PayeeStart
    /\ \E mn \in { NullOutpoint, 1, g_MasternodesStopPayments - 1,
                   g_MasternodesStopPayments, MaxPayee } :
         vBlocks = SetBlock(<< >>, PayeeStart, [ EmptyBlock EXCEPT !.mn = mn ])
    /\ vStale = << >>
    /\ g_MasterNodes = [ x \in PayeeOutpoints |-> NewMasterNode(x) ]
    /\ g_OurMasterNodes = {}
    /\ g_ElectedMasternodes \in RotationRosters
    /\ g_InitialBlock = 0
    /\ setValid = PayeeOutpoints
    /\ nNow = << 0, 1 >>
    /\ fIBD = FALSE
    /\ vNodes = << >>
    /\ fAborted = FALSE
    /\ fMoveEmpties = FALSE
    /\ last = NoCall

\* The rotation machine: blocks without ballots are connected one after the
\* other.
NextRotation ==
    nBestHeight < PayeeStart + MaxRotation /\ ConnectBlock(<< << >>, << >> >>, 0)

SpecRotation == InitRotation /\ [][NextRotation]_vars

(* C17: while payments are running and the roster stays unchanged with n    *)
(* elements, the payees recorded on n consecutively connected blocks are n  *)
(* distinct outpoints, every elected node exactly once, each the next       *)
(* roster element in ascending order after the one before, the smallest     *)
(* following the largest.                                                   *)
C17_RotationPaysEachOnce ==
    LET roster == g_ElectedMasternodes
        n      == Cardinality(roster)
        h      == nBestHeight
        Payee(k) == BlockAt(vBlocks, k).mn
    IN  ( /\ h - n >= PayeeStart
          /\ \A k \in (h - n + 1)..h : Payee(k) # NullOutpoint )
        => /\ { Payee(k) : k \in (h - n + 1)..h } = roster
           /\ \A k \in (h - n + 2)..h :
                LET above == { x \in roster : x > Payee(k - 1) } IN
                Payee(k) = IF above = {} THEN Min(roster) ELSE Min(above)

\* A full rotation has been paid on the last n blocks, its wrap from the
\* largest to the smallest outpoint inside it.
C17_Witness ==
    LET roster == g_ElectedMasternodes
        n      == Cardinality(roster)
        h      == nBestHeight
    IN  /\ last.op = "connect"
        /\ h - n >= PayeeStart
        /\ \A k \in (h - n + 1)..h : BlockAt(vBlocks, k).mn # NullOutpoint
        /\ \E k \in (h - n + 2)..h :
             /\ BlockAt(vBlocks, k - 1).mn = MaxPayee
             /\ BlockAt(vBlocks, k).mn = 1

----------------------------------------------------------------------------
(* The challenge blocks *)

ChallengeStart == 70      \* tip height at which the challenge machine starts
MaxChallengeAdvance == 40 \* blocks the challenge machine connects above ChallengeStart
MaxHash == 4              \* block hashes 0..MaxHash of the blocks that seed a shift

\* The block whose hash seeds the shift of the restart window that begins at
\* or after height h is g_AnnounceExistencePeriod below the window's start.
IsSeedHeight(h) ==
    (h + g_AnnounceExistencePeriod) % g_AnnounceExistenceRestartPeriod = 0

\* The last seeding block at or below ChallengeStart
FirstSeedHeight ==
    (ChallengeStart \div g_AnnounceExistenceRestartPeriod)
        * g_AnnounceExistenceRestartPeriod - g_AnnounceExistencePeriod

\* GetExistenceBlocks is called for a node at the current tip.
QueryChallenges(outpoint) ==
    /\ ~fAborted
    /\ last' = [ op |-> "challenges", arg |-> outpoint,
                 ret |-> GetExistenceBlocks(nBestHeight, outpoint, vBlocks),
                 pre |-> 0 ]
    /\ UNCHANGED << nBestHeight, vBlocks, vStale, g_MasterNodes, g_OurMasterNodes,
                    g_ElectedMasternodes, g_InitialBlock, setValid, nNow, fIBD,
                    vNodes, fAborted, fMoveEmpties >>

InitChallenges ==
    /\ nBestHeight = ChallengeStart
    /\ \E hash \in 0..MaxHash :
         vBlocks = SetBlock(<< >>, FirstSeedHeight,
                            [ EmptyBlock EXCEPT !.hashBlock = hash ])
    /\ vStale = << >>
    /\ g_MasterNodes = << >>
    /\ g_OurMasterNodes = {}
    /\ g_ElectedMasternodes = {}
    /\ g_InitialBlock = 0
    /\ setValid = {}
    /\ nNow = << 0, 1 >>
    /\ fIBD = FALSE
    /\ vNodes = << >>
    /\ fAborted = FALSE
    /\ fMoveEmpties = FALSE
    /\ last = NoCall

\* The challenge machine: blocks are connected, the seeding ones with any
\* hash, and the challenge blocks of two nodes are asked for at every tip.
NextChallenges ==
    \/ /\ nBestHeight < ChallengeStart + MaxChallengeAdvance
       /\ \E hash \in 0..MaxHash :
            /\ hash = 0 \/ IsSeedHeight(nBestHeight + 1)
            /\ ConnectBlock(<< << >>, << >> >>, hash)
    \/ \E outpoint \in 1..2 : QueryChallenges(outpoint)

SpecChallenges == InitChallenges /\ [][NextChallenges]_vars

(* C18: at a height h at or above 4 restart periods (80) GetExistenceBlocks *)
(* returns a strictly increasing sequence of 3 to 5 heights c with          *)
(* h - 20 < c <= h, each congruent modulo the announce period (5) to the    *)
(* shift of the restart window it lies in; below that height it returns     *)
(* the empty sequence.                                                      *)
C18_ChallengeBlocks ==
    last.op = "challenges" =>
        LET v == last.ret
            h == nBestHeight
            WindowStart(c) == (c \div g_AnnounceExistenceRestartPeriod)
                                * g_AnnounceExistenceRestartPeriod
            ShiftOf(c) ==
                Hash64(BlockAt(vBlocks, WindowStart(c) - g_AnnounceExistencePeriod).hashBlock,
                       last.arg) % g_AnnounceExistencePeriod
        IN  IF h < 4 * g_AnnounceExistenceRestartPeriod
            THEN v = << >>
            ELSE /\ Len(v) \in 3..5
                 /\ \A i \in 1..(Len(v) - 1) : v[i] < v[i + 1]
                 /\ \A i \in 1..Len(v) :
                      /\ h - g_AnnounceExistenceRestartPeriod < v[i]
                      /\ v[i] <= h
                      /\ (v[i] - WindowStart(v[i])) % g_AnnounceExistencePeriod
                           = ShiftOf(v[i])

\* Five challenge blocks were returned, from two restart windows whose
\* shifts differ.
C18_Witness ==
    /\ last.op = "challenges"
    /\ Len(last.ret) = 5
    /\ \E i \in 1..4 :
         (last.ret[i + 1] - last.ret[i]) # g_AnnounceExistencePeriod

(* C19: a connect changes an outpoint's roster membership only if more than *)
(* half of the blocks of the trailing election window carry the vote for    *)
(* it; repeated entries for the outpoint in one block's ballot count once,  *)
(* so a single block's ballot never elects or de-elects by itself.          *)
C19_MajorityOfBlocks ==
    (last.op \in {"connect", "reconnect"} /\ last.arg > nThirdHardforkBlock) =>
        LET h == last.arg
            Carrying(j, x) ==
                { k \in WindowHeights(h) : x \in Range(BlockAt(vBlocks, k).vvotes[j]) }
        IN  /\ \A x \in last.pre.elected \ g_ElectedMasternodes :
                 2 * Cardinality(Carrying(1, x)) > g_MasternodesElectionPeriod
            /\ \A x \in g_ElectedMasternodes \ last.pre.elected :
                 2 * Cardinality(Carrying(2, x)) > g_MasternodesElectionPeriod

(* C20: an ingest that ends in Ignore (0), in the penalty for age, in the   *)
(* penalty for unknown collateral or in the penalty for a bad signature     *)
(* (100) leaves the registry as it was: the same records, the same proof    *)
(* lists, the same misbehaving flags; a message whose signature does not    *)
(* verify adds no record.                                                   *)
C20_DropIsPure ==
    [][ ( /\ last'.op = "ingest"
          /\ \/ last'.ret.misbehave \in {0, 100}
             \/ /\ last'.ret.misbehave = 20
                /\ \/ last'.arg.mnem.nBlock < nBestHeight - 100
                   \/ last'.arg.mnem.outpoint \notin DOMAIN g_MasterNodes )
        => g_MasterNodes' = g_MasterNodes ]_vars

====
